---- MODULE Spec2Model ----
(***************************************************************************)
(* The New Relic logger of litellm (litellm/integrations/newrelic):        *)
(* the heartbeat rate limiter (_check_and_emit_periodic_metric and         *)
(* _emit_supportability_metric, double-checked locking on the module       *)
(* globals _last_metric_emission_time and _metric_lock), the success and   *)
(* failure callbacks, and the construction and emission of the Summary     *)
(* and Message events.                                                     *)
(*                                                                         *)
(* Threads call the callbacks of one NewRelicLogger instance.  A success   *)
(* callback is a sequence of steps (one per read or write of the shared    *)
(* heartbeat state), so that the steps of different threads and the clock  *)
(* interleave; the part after the heartbeat touches only call-local data   *)
(* and the sink and is one step.  The sink (the newrelic agent) is the     *)
(* environment: each call chooses whether the application is enabled and   *)
(* which of the calls made to it raise.                                    *)
(***************************************************************************)
EXTENDS Integers, Sequences, FiniteSets, TLC

\* ---------------------------------------------------------------- bounds
NumThreads == 2      \* threads calling the callbacks
MaxTicks == 2        \* clock advances in one behaviour
StartTime == 90000   \* time.time() when the logger is constructed
TickStep == 41400    \* one clock advance: half the long interval
MaxReq == 2          \* request messages of an Observation
MaxChoices == 2      \* response choices of an Observation

\* ------------------------------------------------------ program constants
ShortThreshold == 3600     \* "if time_since_last_emission >= 3600"
LongInterval == 82800      \* "if time_since_last_emission >= 82800"
NeverEmitted == 0          \* "_last_metric_emission_time: float = 0.0"

Threads == 1..NumThreads
NoThread == 0

VARIABLES
    license_key,    \* self.license_key is set (NEW_RELIC_LICENSE_KEY)
    app_name,       \* self.app_name is set (NEW_RELIC_APP_NAME)
    enabled,        \* self.enabled
    now,            \* the wall clock, time.time()
    ticks,          \* clock advances so far
    last_emission,  \* _last_metric_emission_time
    metric_lock,    \* _metric_lock: the thread holding it, or NoThread
    pc,             \* each thread's position in its callback
    current_time,   \* each thread's local current_time
    arg,            \* each thread's Observation (kwargs, response_obj)
    hb,             \* what the heartbeat part of the thread's current call did
    last,           \* what the callback that has just returned did
    emitTimes,      \* clock at each recorded supportability metric
    hbFailed,       \* some heartbeat attempt found the sink disabled or raising
    content_config, \* what __init__ was given about message content
    record_content  \* self.record_content

\* What __init__ sets and no callback changes.
construction ==
    <<license_key, app_name, enabled, content_config, record_content>>

vars == <<license_key, app_name, enabled, now, ticks, last_emission,
          metric_lock, pc, current_time, arg, hb, last, emitTimes, hbFailed,
          content_config, record_content>>

\* ----------------------------------------------------------- Observations
Missing == "<missing>"
RequestRoles == {"system", Missing}
ResponseRoles == {"tool", Missing}

\* A Python value by its type and its text (what str and json.dumps give).
PyNone == [type |-> "NoneType", text |-> "None"]
Text == [type |-> "str", text |-> "hi"]
EmptyText == [type |-> "str", text |-> ""]
Parts == [type |-> "list", text |-> "[1, 2]"]
Number == [type |-> "int", text |-> "7"]
NoCalls == [type |-> "list", text |-> "[]"]
ToolCalls == [type |-> "list", text |-> "[{}]"]
\* bool(value)
Truthy(value) == value \notin {PyNone, EmptyText, NoCalls}

\* What "content" and "tool_calls" of a message may hold; PyNone also stands
\* for the key being absent (message.get gives None).
Contents == {PyNone, Text, Parts, Number}
ToolCallValues == {PyNone, ToolCalls}

\* A request message: a mapping that may lack "role".
RequestMessages == [role : RequestRoles, content : {Text}, tool_calls : {PyNone}]
\* A choice: its "message" is absent (None) or a message with a role.
NoMessage == [present |-> FALSE, role |-> Missing, content |-> PyNone,
              tool_calls |-> PyNone]
ChoiceMessages ==
    {NoMessage} \cup [present : {TRUE}, role : ResponseRoles,
                      content : {Text}, tool_calls : {PyNone}]
Choices == [message : ChoiceMessages]

SeqsUpTo(S, n) == UNION {[1..k -> S] : k \in 0..n}

\* The usage block of a response: a dict, the empty one also standing for
\* an absent or None "usage".
NoUsage == <<>>
\* The traceparent header: the parts between its hyphens; none when the
\* header is absent.
NoTraceparent == <<>>

\* kwargs and response_obj with the given messages and choices, a response
\* id and a call id, no traceparent header and no usage block.
Observation(messages, choices) ==
    [messages |-> messages, choices |-> choices, id |-> "chatcmpl-1",
     litellm_call_id |-> "call-1", traceparent |-> NoTraceparent,
     usage |-> NoUsage]

Observations == {Observation(m, c) : m \in SeqsUpTo(RequestMessages, MaxReq),
                                     c \in SeqsUpTo(Choices, MaxChoices)}

\* An Observation of one request message and no choice.
SingleMessageObservation ==
    Observation(<<[role |-> Missing, content |-> Text, tool_calls |-> PyNone]>>,
                <<>>)
NoObservation == Observation(<<>>, <<>>)

\* Observations whose messages differ in role, content and tool calls: one
\* request message alone, or a plain request message and one choice.
ContentRequestMessages ==
    [role : RequestRoles, content : Contents, tool_calls : ToolCallValues]
ContentChoiceMessages ==
    [present : {TRUE}, role : ResponseRoles, content : Contents,
     tool_calls : ToolCallValues]
ContentObservations ==
    {Observation(<<m>>, <<>>) : m \in ContentRequestMessages}
    \cup {Observation(SingleMessageObservation.messages, <<[message |-> c]>>) :
              c \in ContentChoiceMessages}

\* dict.get(key, default)
Get(value, default) == IF value = Missing THEN default ELSE value

\* ----------------------------------------------- _extract_message_content
\* json.dumps(value) and str(value)
JsonDumps(value) == value.text
Str(value) == value.text

ExtractMessageContent(message) ==
    IF Truthy(message.tool_calls) THEN JsonDumps(message.tool_calls)
    ELSE IF message.content = PyNone THEN ""
    ELSE IF message.content.type = "list" THEN JsonDumps(message.content)
    ELSE IF message.content.type # "str" THEN Str(message.content)
    ELSE message.content.text

\* ------------------------------------------------- _extract_all_messages
\* Content recorded whatever the policy.
ShouldRecordContent_Always == TRUE

\* _should_record_content
ShouldRecordContent == record_content

\* The "content" key of message_data: Missing when the key is not set.
MessageDataContent(message) ==
    IF ShouldRecordContent THEN ExtractMessageContent(message) ELSE Missing

\* One iteration of "for msg in request_messages": st is the pair of the
\* locals (messages, sequence).
AppendRequestMessage(st, msg) ==
    [messages |-> Append(st.messages,
                         [role |-> Get(msg.role, "user"),
                          sequence |-> st.sequence,
                          is_response |-> FALSE,
                          content |-> MessageDataContent(msg)]),
     sequence |-> st.sequence + 1]

\* sequence advanced for every choice, with or without a message.
AppendResponseMessage_CountsEveryChoice(st, choice) ==
    IF choice.message.present
    THEN [messages |-> Append(st.messages,
                              [role |-> Get(choice.message.role, "assistant"),
                               sequence |-> st.sequence,
                               is_response |-> TRUE,
                               content |-> MessageDataContent(choice.message)]),
          sequence |-> st.sequence + 1]
    ELSE [st EXCEPT !.sequence = @ + 1]

\* One iteration of "for choice in choices": a choice without a message
\* appends nothing and leaves sequence alone.
AppendResponseMessage(st, choice) ==
    IF choice.message.present
    THEN [messages |-> Append(st.messages,
                              [role |-> Get(choice.message.role, "assistant"),
                               sequence |-> st.sequence,
                               is_response |-> TRUE,
                               content |-> MessageDataContent(choice.message)]),
          sequence |-> st.sequence + 1]
    ELSE st

RECURSIVE ExtractRequestLoop(_, _, _)
ExtractRequestLoop(request_messages, i, st) ==
    IF i > Len(request_messages) THEN st
    ELSE ExtractRequestLoop(request_messages, i + 1,
                            AppendRequestMessage(st, request_messages[i]))

RECURSIVE ExtractResponseLoop(_, _, _)
ExtractResponseLoop(choices, i, st) ==
    IF i > Len(choices) THEN st
    ELSE ExtractResponseLoop(choices, i + 1,
                             AppendResponseMessage(st, choices[i]))

ExtractAllMessages(o) ==
    LET start == [messages |-> <<>>, sequence |-> 0]
        afterRequest == ExtractRequestLoop(o.messages, 1, start)
    IN  ExtractResponseLoop(o.choices, 1, afterRequest).messages

\* ------------------------------------------------------ _get_trace_context
\* "if value:" for a string or None
NonEmpty(value) == value \notin {Missing, ""}

\* parts = traceparent.split("-"); parts[1] of four parts is the trace id
\* (part 2 counting from 1); span_id is never assigned after "span_id = None".
GetTraceContext(traceparent) ==
    LET trace_id == IF traceparent # NoTraceparent /\ Len(traceparent) = 4
                    THEN traceparent[2] ELSE Missing
        span_id == Missing
    IN  IF ~NonEmpty(trace_id)
        THEN [trace_id |-> Missing, span_id |-> Missing]
        ELSE [trace_id |-> trace_id, span_id |-> span_id]

\* -------------------------------------------------- _extract_completion_id
\* str(uuid.uuid4()): the first and the second value generated in one call
\* of _process_success, different from each other and from every id an
\* Observation holds.
FirstUuid == "uuid4#1"
SecondUuid == "uuid4#2"

\* kwargs["litellm_call_id"] looked up before the id of the response.
ExtractCompletionId_CallIdFirst(o, generated) ==
    IF NonEmpty(o.litellm_call_id) THEN o.litellm_call_id
    ELSE IF NonEmpty(o.id) THEN o.id
    ELSE generated

\* response_obj.get("id"), else kwargs.get("litellm_call_id"), else a
\* generated uuid.
ExtractCompletionId(o, generated) ==
    IF NonEmpty(o.id) THEN o.id
    ELSE IF NonEmpty(o.litellm_call_id) THEN o.litellm_call_id
    ELSE generated

\* ----------------------------------------------------------- _extract_usage
\* dict.get(key, default) of a dict held as a function
DictGet(dict, key, default) ==
    IF key \in DOMAIN dict THEN dict[key] ELSE default

\* total_tokens computed from the two parts.
ExtractUsage_Summed(usage) ==
    [prompt_tokens |-> DictGet(usage, "prompt_tokens", 0),
     completion_tokens |-> DictGet(usage, "completion_tokens", 0),
     total_tokens |-> DictGet(usage, "prompt_tokens", 0)
                          + DictGet(usage, "completion_tokens", 0)]

\* "if not usage:" gives three zeros; else each field is copied, 0 where the
\* key is missing.
ExtractUsage(usage) ==
    IF usage = NoUsage
    THEN [prompt_tokens |-> 0, completion_tokens |-> 0, total_tokens |-> 0]
    ELSE [prompt_tokens |-> DictGet(usage, "prompt_tokens", 0),
          completion_tokens |-> DictGet(usage, "completion_tokens", 0),
          total_tokens |-> DictGet(usage, "total_tokens", 0)]

\* ------------------------------------------------------------ sink calls
\* The sink's answer to one callback: app_enabled is "app and app.enabled";
\* failing is the set of emit positions whose call to the sink raises
\* (position 1 is the Summary event, position 1 + k the k-th Message event).
MessagePosition(k) == 1 + k
SummaryPosition == MessagePosition(0)

\* "if value: event_data[key] = value": Missing when the key is not set.
OptionalKey(value) == IF NonEmpty(value) THEN value ELSE Missing

\* event_data of _record_summary_event.
SummaryEventData(request_id, trace, num_messages, usage) ==
    [id |-> request_id,
     request_id |-> request_id,
     number_of_messages |-> num_messages,
     prompt_tokens |-> usage.prompt_tokens,
     completion_tokens |-> usage.completion_tokens,
     total_tokens |-> usage.total_tokens,
     trace_id |-> OptionalKey(trace.trace_id),
     span_id |-> OptionalKey(trace.span_id)]

\* _record_summary_event: the event handed to the sink, if any, and whether
\* the except branch ran (which calls handle_callback_failure).
RecordSummaryEvent(event_data, app_enabled, failing) ==
    IF ~app_enabled
    THEN [delivered |-> <<>>, raised |-> FALSE]
    ELSE IF SummaryPosition \in failing
    THEN [delivered |-> <<>>, raised |-> TRUE]
    ELSE [delivered |-> <<event_data>>, raised |-> FALSE]

\* f"{llm_response_id}-{sequence}": the two parts joined.
MessageEventId(request_id, llm_response_id, sequence) ==
    <<llm_response_id, sequence>>

\* event_data of one iteration of _record_message_events; ids holds
\* request_id and llm_response_id.  "content" is copied when the key is in
\* the message.
MessageEventData(ids, trace, message) ==
    [id |-> MessageEventId(ids.request_id, ids.llm_response_id,
                           message.sequence),
     request_id |-> ids.request_id,
     completion_id |-> ids.request_id,
     role |-> message.role,
     sequence |-> message.sequence,
     is_response |-> message.is_response,
     content |-> message.content,
     trace_id |-> OptionalKey(trace.trace_id),
     span_id |-> OptionalKey(trace.span_id)]

\* _record_message_events: one try block around the whole loop, so a raise
\* ends the loop.
RECURSIVE RecordMessageLoop(_, _, _, _, _, _, _)
RecordMessageLoop(ids, trace, messages, k, app_enabled, failing, delivered) ==
    IF k > Len(messages) THEN [delivered |-> delivered, raised |-> FALSE]
    ELSE IF ~app_enabled
    THEN RecordMessageLoop(ids, trace, messages, k + 1, app_enabled, failing,
                           delivered)
    ELSE IF MessagePosition(k) \in failing
    THEN [delivered |-> delivered, raised |-> TRUE]
    ELSE RecordMessageLoop(ids, trace, messages, k + 1, app_enabled, failing,
                           Append(delivered,
                                  MessageEventData(ids, trace, messages[k])))

RecordMessageEvents(ids, trace, messages, app_enabled, failing) ==
    RecordMessageLoop(ids, trace, messages, 1, app_enabled, failing, <<>>)

\* The metric recorded only "if app and app.enabled", as the events are.
RecordErrorMetric_ChecksApp(app_enabled, raises) ==
    IF ~app_enabled \/ raises
    THEN [delivered |-> <<>>, raised |-> app_enabled /\ raises]
    ELSE [delivered |-> <<[name |-> "LLM/LiteLLM/Error", value |-> 1]>>,
          raised |-> FALSE]

\* _record_error_metric: newrelic.agent.record_custom_metric is called
\* whatever the application reports; the value recorded, if the call returns.
RecordErrorMetric(app_enabled, raises) ==
    IF raises
    THEN [delivered |-> <<>>, raised |-> TRUE]
    ELSE [delivered |-> <<[name |-> "LLM/LiteLLM/Error", value |-> 1]>>,
          raised |-> FALSE]

\* ------------------------------------------------------------ call records
\* What the heartbeat part of a success callback has done so far (kept while
\* the call runs).
NoHeartbeat ==
    [due |-> FALSE,        \* the unlocked read showed at least LongInterval
     below |-> FALSE,      \* the unlocked read showed less than ShortThreshold
     locked |-> FALSE,     \* the call acquired _metric_lock
     recheck |-> "none",   \* the read inside the lock: "due" (at least
                           \* LongInterval) or "fresh"
     emitted |-> 0,        \* supportability metrics the call recorded
     wrote |-> FALSE,      \* the call wrote _last_metric_emission_time
     outcome |-> "none",   \* of its emission attempt: ok, disabled, raise
     finished |-> FALSE]   \* _check_and_emit_periodic_metric has returned

\* What a callback did towards the sink and its caller.
NoResult ==
    [kind |-> "none", adapter_enabled |-> FALSE, app_enabled |-> TRUE,
     observation |-> NoObservation, messages |-> <<>>, summary |-> <<>>, message_events |-> <<>>,
     errors |-> <<>>, raises |-> 0, hooks |-> 0, propagated |-> FALSE]

Count(b) == IF b THEN 1 ELSE 0

\* ------------------------------------------------------------------ __init__
\* The license key not required.
Enabled_WithoutLicense(license, app, registered) == app /\ registered

\* self.enabled: both variables set and register_application not raising
\* ImportError.
Enabled(license, app, registered) == license /\ app /\ registered

\* _parse_bool_env
\* str.lower() on the values the variable takes here
Lower(value) == IF value = "TRUE" THEN "true" ELSE value
ParseBoolEnv(value, default) ==
    IF value = "" THEN default ELSE Lower(value) = "true"

\* self.record_content: the turn_off_message_logging parameter inverted when
\* it was passed, else NEW_RELIC_AI_MONITORING_RECORD_CONTENT_ENABLED.
RecordContent(config) ==
    IF config.provided THEN ~config.turn_off_message_logging
    ELSE ParseBoolEnv(config.env, FALSE)

\* What __init__ is given about content: whether turn_off_message_logging
\* was passed and its value, and the environment variable ("" when unset).
NoContentConfig ==
    [provided |-> FALSE, turn_off_message_logging |-> FALSE, env |-> ""]
ContentConfigs ==
    [provided : {TRUE}, turn_off_message_logging : BOOLEAN, env : {"", "true"}]
    \cup [provided : {FALSE}, turn_off_message_logging : {FALSE},
          env : {"", "true", "TRUE", "false"}]

\* The state after __init__ with one of the given content configurations.
Construct(configs) ==
    /\ license_key \in BOOLEAN
    /\ app_name \in BOOLEAN
    /\ \E registered \in BOOLEAN :
           enabled = Enabled(license_key, app_name, registered)
    /\ content_config \in configs
    /\ record_content = RecordContent(content_config)
    /\ now = StartTime
    /\ ticks = 0
    /\ last_emission = NeverEmitted
    /\ metric_lock = NoThread
    /\ pc = [t \in Threads |-> "idle"]
    /\ current_time = [t \in Threads |-> 0]
    /\ arg = [t \in Threads |-> NoObservation]
    /\ hb = [t \in Threads |-> NoHeartbeat]
    /\ last = NoResult
    /\ emitTimes = <<>>
    /\ hbFailed = FALSE

\* Constructed with neither the parameter nor the environment variable.
Init == Construct({NoContentConfig})

\* Constructed with any of the content configurations.
InitFields == Construct(ContentConfigs)

\* --------------------------------------------------------------- the clock
Tick ==
    /\ ticks < MaxTicks
    /\ now' = now + TickStep
    /\ ticks' = ticks + 1
    /\ UNCHANGED <<construction, last_emission, metric_lock,
                   pc, current_time, arg, hb, last, emitTimes, hbFailed>>

\* ------------------------------------- log_success_event / _process_success
\* The call and the "if not self.enabled: return" of _process_success.
LogSuccessEvent(t, o) ==
    /\ pc[t] = "idle"
    /\ IF enabled
       THEN /\ pc' = [pc EXCEPT ![t] = "read_time"]
            /\ arg' = [arg EXCEPT ![t] = o]
            /\ hb' = [hb EXCEPT ![t] = NoHeartbeat]
            /\ last' = NoResult
       ELSE /\ last' = [NoResult EXCEPT !.kind = "success"]
            /\ UNCHANGED <<pc, arg, hb>>
    /\ UNCHANGED <<construction, now, ticks, last_emission,
                   metric_lock, current_time, emitTimes, hbFailed>>

\* ------------------------------------------ _check_and_emit_periodic_metric
\* "current_time = time.time()" outside the lock.
ReadTime(t) ==
    /\ pc[t] = "read_time"
    /\ current_time' = [current_time EXCEPT ![t] = now]
    /\ pc' = [pc EXCEPT ![t] = "fast_check"]
    /\ UNCHANGED <<construction, now, ticks, last_emission,
                   metric_lock, arg, hb, last, emitTimes, hbFailed>>

\* The fast path dropped: every call goes on to the lock.
NeedsLock_Always(time_since_last_emission) == TRUE

\* "if time_since_last_emission >= 3600"
NeedsLock(time_since_last_emission) == time_since_last_emission >= ShortThreshold

\* The unlocked read of _last_metric_emission_time and the fast-path test.
FastCheck(t) ==
    /\ pc[t] = "fast_check"
    /\ LET time_since_last_emission == current_time[t] - last_emission
       IN  /\ hb' = [hb EXCEPT
                        ![t].due = (time_since_last_emission >= LongInterval),
                        ![t].below = (time_since_last_emission < ShortThreshold),
                        ![t].finished = ~NeedsLock(time_since_last_emission)]
           /\ pc' = [pc EXCEPT ![t] = IF NeedsLock(time_since_last_emission)
                                      THEN "acquire" ELSE "events"]
    /\ current_time' = [current_time EXCEPT ![t] = 0]
    /\ UNCHANGED <<construction, now, ticks, last_emission,
                   metric_lock, arg, last, emitTimes, hbFailed>>

\* A lock that never blocks.
CanAcquire_Always(lock) == TRUE

\* threading.Lock: acquire blocks while another thread holds the lock.
CanAcquire(lock) == lock = NoThread

\* "with _metric_lock:" entered.
Acquire(t) ==
    /\ pc[t] = "acquire"
    /\ CanAcquire(metric_lock)
    /\ metric_lock' = t
    /\ hb' = [hb EXCEPT ![t].locked = TRUE]
    /\ pc' = [pc EXCEPT ![t] = "locked_read_time"]
    /\ UNCHANGED <<construction, now, ticks, last_emission,
                   current_time, arg, last, emitTimes, hbFailed>>

\* "current_time = time.time()" inside the lock.
LockedReadTime(t) ==
    /\ pc[t] = "locked_read_time"
    /\ current_time' = [current_time EXCEPT ![t] = now]
    /\ pc' = [pc EXCEPT ![t] = "locked_check"]
    /\ UNCHANGED <<construction, now, ticks, last_emission,
                   metric_lock, arg, hb, last, emitTimes, hbFailed>>

\* The double check made against the short threshold.
ShouldEmit_Short(time_since_last_emission) ==
    time_since_last_emission >= ShortThreshold
\* No double check inside the lock.
ShouldEmit_Unchecked(time_since_last_emission) == TRUE
\* The double check made with > instead of >=.
ShouldEmit_Strict(time_since_last_emission) ==
    time_since_last_emission > LongInterval

\* "if time_since_last_emission >= 82800"
ShouldEmit(time_since_last_emission) == time_since_last_emission >= LongInterval

\* The read of _last_metric_emission_time inside the lock and the double
\* check.
LockedCheck(t) ==
    /\ pc[t] = "locked_check"
    /\ LET time_since_last_emission == current_time[t] - last_emission
       IN  /\ hb' = [hb EXCEPT ![t].recheck =
                        IF time_since_last_emission >= LongInterval
                        THEN "due" ELSE "fresh"]
           /\ pc' = [pc EXCEPT ![t] = IF ShouldEmit(time_since_last_emission)
                                      THEN "emit" ELSE "release"]
    /\ current_time' = [current_time EXCEPT ![t] = 0]
    /\ UNCHANGED <<construction, now, ticks, last_emission,
                   metric_lock, arg, last, emitTimes, hbFailed>>

\* ---------------------------------------------- _emit_supportability_metric
EmitOutcomes == {"ok", "disabled", "raise"}

\* The timestamp written whatever the attempt did.
AfterEmit_AlwaysWrites(outcome) == "write_time"

\* After app.record_custom_metric returned the timestamp is written next;
\* a disabled application or a raise leaves the function without the write.
AfterEmit(outcome) == IF outcome = "ok" THEN "write_time" ELSE "release"

\* newrelic.agent.application(), "if app and app.enabled:" and
\* app.record_custom_metric(metric_name, 1), inside the try block.
EmitSupportabilityMetric(t) ==
    /\ pc[t] = "emit"
    /\ \E outcome \in EmitOutcomes :
           /\ hb' = [hb EXCEPT ![t].outcome = outcome,
                               ![t].emitted = @ + Count(outcome = "ok")]
           /\ emitTimes' = IF outcome = "ok" THEN Append(emitTimes, now)
                           ELSE emitTimes
           /\ hbFailed' = (hbFailed \/ outcome # "ok")
           /\ pc' = [pc EXCEPT ![t] = AfterEmit(outcome)]
    /\ UNCHANGED <<construction, now, ticks, last_emission,
                   metric_lock, current_time, arg, last>>

\* "_last_metric_emission_time = time.time()"
WriteEmissionTime(t) ==
    /\ pc[t] = "write_time"
    /\ last_emission' = now
    /\ hb' = [hb EXCEPT ![t].wrote = TRUE]
    /\ pc' = [pc EXCEPT ![t] = "release"]
    /\ UNCHANGED <<construction, now, ticks, metric_lock,
                   current_time, arg, last, emitTimes, hbFailed>>

\* The end of the "with _metric_lock:" block.
Release(t) ==
    /\ pc[t] = "release"
    /\ metric_lock' = NoThread
    /\ hb' = [hb EXCEPT ![t].finished = TRUE]
    /\ pc' = [pc EXCEPT ![t] = "events"]
    /\ UNCHANGED <<construction, now, ticks, last_emission,
                   current_time, arg, last, emitTimes, hbFailed>>

\* ------------------------------ _process_success after the heartbeat check
\* Extraction of the messages, _record_summary_event and
\* _record_message_events, and the return.  Both record functions catch what
\* the sink raises and call handle_callback_failure; nothing is left to
\* propagate to log_success_event or its caller.
RecordEvents(t) ==
    /\ pc[t] = "events"
    /\ \E app_enabled \in BOOLEAN :
       LET trace == GetTraceContext(arg[t].traceparent)
           request_id == FirstUuid
           llm_response_id == ExtractCompletionId(arg[t], SecondUuid)
           ids == [request_id |-> request_id,
                   llm_response_id |-> llm_response_id]
           usage == ExtractUsage(arg[t].usage)
           messages == ExtractAllMessages(arg[t])
       IN  \E failing \in SUBSET (1..MessagePosition(Len(messages))) :
           LET s == RecordSummaryEvent(
                        SummaryEventData(request_id, trace, Len(messages),
                                         usage),
                        app_enabled, failing)
               m == RecordMessageEvents(ids, trace, messages, app_enabled,
                                        failing)
           IN  last' = [kind |-> "success", adapter_enabled |-> TRUE,
                        app_enabled |-> app_enabled,
                        observation |-> arg[t],
                        messages |-> messages,
                        summary |-> s.delivered,
                        message_events |-> m.delivered,
                        errors |-> <<>>,
                        raises |-> Count(s.raised) + Count(m.raised),
                        hooks |-> Count(s.raised) + Count(m.raised),
                        propagated |-> FALSE]
    /\ pc' = [pc EXCEPT ![t] = "idle"]
    /\ arg' = [arg EXCEPT ![t] = NoObservation]
    /\ hb' = [hb EXCEPT ![t] = NoHeartbeat]
    /\ UNCHANGED <<construction, now, ticks, last_emission,
                   metric_lock, current_time, emitTimes, hbFailed>>

\* ------------------------------ log_failure_event, async_log_failure_event
\* The two have the same body: "if not self.enabled: return", then
\* _record_error_metric, which catches what the sink raises.
LogFailureEvent(t) ==
    /\ pc[t] = "idle"
    /\ \E app_enabled \in BOOLEAN, raises \in BOOLEAN :
       LET e == RecordErrorMetric(app_enabled, raises)
       IN  last' = IF enabled
                   THEN [NoResult EXCEPT !.kind = "failure",
                                         !.adapter_enabled = TRUE,
                                         !.app_enabled = app_enabled,
                                         !.errors = e.delivered,
                                         !.raises = Count(e.raised),
                                         !.hooks = Count(e.raised)]
                   ELSE [NoResult EXCEPT !.kind = "failure"]
    /\ UNCHANGED <<construction, now, ticks, last_emission,
                   metric_lock, pc, current_time, arg, hb, emitTimes, hbFailed>>

\* ---------------------------------------------------------- specifications
\* Concurrent callbacks under a moving clock, each success callback with the
\* single-message Observation.
Next ==
    \/ Tick
    \/ \E t \in Threads :
           \/ LogSuccessEvent(t, SingleMessageObservation)
           \/ ReadTime(t)
           \/ FastCheck(t)
           \/ Acquire(t)
           \/ LockedReadTime(t)
           \/ LockedCheck(t)
           \/ EmitSupportabilityMetric(t)
           \/ WriteEmissionTime(t)
           \/ Release(t)
           \/ RecordEvents(t)
           \/ LogFailureEvent(t)

Spec == Init /\ [][Next]_vars

\* One thread's callbacks over every Observation within the bounds, the
\* clock standing still.
NextEvents ==
    \/ \E o \in Observations : LogSuccessEvent(1, o)
    \/ ReadTime(1)
    \/ FastCheck(1)
    \/ Acquire(1)
    \/ LockedReadTime(1)
    \/ LockedCheck(1)
    \/ EmitSupportabilityMetric(1)
    \/ WriteEmissionTime(1)
    \/ Release(1)
    \/ RecordEvents(1)
    \/ LogFailureEvent(1)

SpecEvents == Init /\ [][NextEvents]_vars

\* Observations that differ in the traceparent header: well formed, one
\* part short, one part long, with an empty trace id.
Traceparents ==
    {<<"00", "4bf9", "00f0", "01">>, <<"00", "4bf9", "00f0">>,
     <<"00", "4bf9", "00f0", "01", "x">>, <<"00", "", "00f0", "01">>}
TraceObservations ==
    {[SingleMessageObservation EXCEPT !.traceparent = h] : h \in Traceparents}

\* Observations that differ in the usage block: every dict over a subset
\* of the three keys with the given counts (the empty dict among them).
UsageKeys == {"prompt_tokens", "completion_tokens", "total_tokens"}
TokenCounts == {1, 2}
UsageBlocks == UNION {[keys -> TokenCounts] : keys \in SUBSET UsageKeys}
UsageObservations ==
    {[SingleMessageObservation EXCEPT !.usage = u] : u \in UsageBlocks}

\* Observations that differ in the id of the response and in
\* kwargs["litellm_call_id"] (absent, empty or set), with two request
\* messages and one choice.
ResponseIds == {Missing, "", "chatcmpl-1"}
CallIds == {Missing, "", "call-1"}
IdObservations ==
    {[Observation(<<SingleMessageObservation.messages[1],
                    SingleMessageObservation.messages[1]>>,
                  <<[message |-> [present |-> TRUE, role |-> Missing,
                                  content |-> Text, tool_calls |-> PyNone]]>>)
          EXCEPT !.id = r, !.litellm_call_id = c] :
        r \in ResponseIds, c \in CallIds}

\* Observations that differ in the fields the events are built from.
FieldObservations ==
    ContentObservations \cup TraceObservations \cup UsageObservations
        \cup IdObservations

\* One thread's callbacks over the field Observations, on a logger built
\* with any content configuration, the clock standing still.
NextFields ==
    \/ \E o \in FieldObservations : LogSuccessEvent(1, o)
    \/ ReadTime(1)
    \/ FastCheck(1)
    \/ Acquire(1)
    \/ LockedReadTime(1)
    \/ LockedCheck(1)
    \/ EmitSupportabilityMetric(1)
    \/ WriteEmissionTime(1)
    \/ Release(1)
    \/ RecordEvents(1)
    \/ LogFailureEvent(1)

SpecFields == InitFields /\ [][NextFields]_vars

\* ================================================================== claims
LockedSection == {"locked_read_time", "locked_check", "emit", "write_time",
                  "release"}
HeartbeatReturned(t) == pc[t] = "events" /\ hb[t].finished
SinkRefused(t) == hb[t].outcome \in {"disabled", "raise"}

\* C1: whatever the number of threads and the interleaving, two recorded
\* supportability metrics are never less than the long interval (82800 s)
\* apart.
C1_EmissionsSpaced ==
    \A i \in 1..(Len(emitTimes) - 1) :
        emitTimes[i + 1] - emitTimes[i] >= LongInterval

\* Two threads passed the unlocked check together in the second interval;
\* one has recorded the second metric, the other still waits for the lock.
C1_Witness ==
    /\ Len(emitTimes) = 2
    /\ \E t, u \in Threads :
           /\ t # u
           /\ pc[t] = "write_time"
           /\ pc[u] = "acquire" /\ hb[u].due

\* C2 as stated: once every success callback made on an enabled adapter
\* within less than the long interval of the start (timestamp 0.0 at the
\* start) has left the heartbeat check, exactly one metric has been recorded.
NoCallInHeartbeat == \A t \in Threads : pc[t] \in {"idle", "events"}
SomeCallPassed ==
    \/ \E t \in Threads : HeartbeatReturned(t)
    \/ last.kind = "success"
WithinFirstInterval == now - StartTime < LongInterval

C2_ExactlyOneEmission ==
    (enabled /\ NoCallInHeartbeat /\ SomeCallPassed /\ WithinFirstInterval)
        => Len(emitTimes) = 1

\* C2 amended: under the same conditions at most one metric has been
\* recorded, and exactly one unless an emission attempt found the sink
\* disabled or raising.
C2_OneEmissionUnlessSinkRefuses ==
    (enabled /\ NoCallInHeartbeat /\ SomeCallPassed /\ WithinFirstInterval)
        => /\ Len(emitTimes) <= 1
           /\ ~hbFailed => Len(emitTimes) = 1

\* All threads called concurrently, each passed the unlocked check before
\* any timestamp was written, and all have left the heartbeat check.
C2_Witness ==
    /\ now = StartTime
    /\ ~hbFailed
    /\ Len(emitTimes) = 1
    /\ \A t \in Threads : HeartbeatReturned(t) /\ hb[t].due /\ hb[t].locked

\* C3 as stated: a success callback made at least the long interval after
\* the recorded timestamp records the metric exactly once, unless it finds
\* under the lock that another call has recorded it in this interval; no
\* call records it twice, and a call that finds the timestamp fresh records
\* nothing.
C3_DueCallEmits ==
    \A t \in Threads :
        /\ hb[t].emitted <= 1
        /\ hb[t].recheck = "fresh" => hb[t].emitted = 0
        /\ (pc[t] \in {"release", "events"} /\ hb[t].due)
               => (hb[t].emitted = 1 \/ hb[t].recheck = "fresh")

\* C3 amended: the same, unless the call's emission attempt found the sink
\* disabled or raising, in which case it records nothing.
C3_DueCallEmitsUnlessSinkRefuses ==
    \A t \in Threads :
        /\ hb[t].emitted <= 1
        /\ hb[t].recheck = "fresh" => hb[t].emitted = 0
        /\ (pc[t] \in {"release", "events"} /\ hb[t].due)
               => \/ hb[t].emitted = 1 /\ hb[t].wrote
                  \/ hb[t].recheck = "fresh"
                  \/ SinkRefused(t) /\ hb[t].emitted = 0 /\ ~hb[t].wrote

\* A call made exactly the long interval after the first emission has
\* recorded the second metric.
C3_Witness ==
    \E t \in Threads :
        /\ HeartbeatReturned(t) /\ hb[t].due /\ hb[t].emitted = 1
        /\ Len(emitTimes) = 2
        /\ emitTimes[2] - emitTimes[1] = LongInterval

\* C4: a thread is between the lock's acquisition and its release only while
\* it holds the mutex (so at most one thread is), it is at the emission or
\* at the write of the timestamp only after its read inside the lock showed
\* at least the long interval, and every step that records a metric or
\* changes the timestamp is a step of such a thread.
C4_Inside ==
    \A t \in Threads :
        /\ pc[t] \in LockedSection => metric_lock = t
        /\ pc[t] \in {"emit", "write_time"} => hb[t].recheck = "due"
        /\ (hb[t].emitted > 0 \/ hb[t].wrote) => hb[t].locked

C4_Step ==
    /\ emitTimes' # emitTimes =>
           \E t \in Threads : /\ pc[t] = "emit" /\ metric_lock = t
                              /\ hb[t].recheck = "due"
    /\ last_emission' # last_emission =>
           \E t \in Threads : /\ pc[t] = "write_time" /\ metric_lock = t
                              /\ hb[t].recheck = "due"

C4_EmissionUnderLock == []C4_Inside /\ [][C4_Step]_vars

\* One thread writes the timestamp under the lock while another waits for
\* the lock.
C4_Witness ==
    \E t, u \in Threads :
        /\ t # u
        /\ pc[t] = "write_time" /\ metric_lock = t
        /\ pc[u] = "acquire"

\* C5: a call whose unlocked read shows less than the short threshold
\* (3600 s) goes straight on past the heartbeat check: it never acquires the
\* mutex, records no metric and writes no timestamp, and its check leaves
\* the timestamp, the mutex and the recorded metrics as they were.
C5_Inside ==
    \A t \in Threads :
        hb[t].below =>
            /\ HeartbeatReturned(t)
            /\ ~hb[t].locked /\ metric_lock # t
            /\ hb[t].emitted = 0 /\ ~hb[t].wrote

C5_Step ==
    \A t \in Threads :
        (~hb[t].below /\ hb'[t].below) =>
            UNCHANGED <<last_emission, metric_lock, emitTimes>>

C5_FastPath == []C5_Inside /\ [][C5_Step]_vars

\* A call made right after an emission took the fast path.
C5_Witness ==
    \E t \in Threads :
        /\ hb[t].below /\ pc[t] = "events"
        /\ last_emission = now /\ Len(emitTimes) = 1

\* C6 as stated: a failure callback on an enabled adapter records exactly
\* one increment of 1 of LLM/LiteLLM/Error and nothing else.
ErrorIncrement == [name |-> "LLM/LiteLLM/Error", value |-> 1]
FailureReturned == last.kind = "failure" /\ last.adapter_enabled
NoEventRecorded ==
    /\ last.summary = <<>>
    /\ last.message_events = <<>>
    /\ last.messages = <<>>

C6_ExactlyOneIncrement ==
    FailureReturned => (last.errors = <<ErrorIncrement>> /\ NoEventRecorded)

\* C6 amended: a failure callback on an enabled adapter makes one call of
\* the error counter: the sink records exactly one increment of 1 of
\* LLM/LiteLLM/Error when the call returns, and none when it raises (the
\* failure hook is then called once); no Summary event, no Message event, no
\* supportability metric, the timestamp and the mutex unchanged, nothing
\* raised to the caller.
C6_Inside ==
    FailureReturned =>
        /\ last.raises \in {0, 1}
        /\ last.hooks = last.raises
        /\ last.errors = (IF last.raises = 0 THEN <<ErrorIncrement>> ELSE <<>>)
        /\ NoEventRecorded
        /\ ~last.propagated

C6_Step ==
    (last'.kind = "failure" /\ pc' = pc) =>
        UNCHANGED <<last_emission, metric_lock, emitTimes, hb>>

C6_FailureRecordsOnlyTheCounter == []C6_Inside /\ [][C6_Step]_vars

\* A failure callback returned with its increment recorded although the
\* application reported itself disabled, after a heartbeat emission.
C6_Witness ==
    /\ FailureReturned /\ ~last.app_enabled
    /\ last.errors = <<ErrorIncrement>>
    /\ Len(emitTimes) = 1

\* C7: with the license key or the application name missing the adapter is
\* disabled for good: whatever callbacks were made, nothing was recorded by
\* the sink, the timestamp is still 0.0, the mutex was never taken, no call
\* is left inside a callback and none has raised.
C7_DisabledForGood ==
    (~license_key \/ ~app_name) =>
        /\ ~enabled
        /\ last.summary = <<>> /\ last.message_events = <<>>
        /\ last.errors = <<>> /\ last.raises = 0 /\ last.hooks = 0
        /\ ~last.propagated
        /\ emitTimes = <<>>
        /\ last_emission = NeverEmitted
        /\ metric_lock = NoThread
        /\ \A t \in Threads : pc[t] = "idle" /\ hb[t] = NoHeartbeat

\* A success callback has returned on an adapter built without license key.
C7_Witness ==
    /\ ~license_key /\ app_name
    /\ last.kind = "success"

\* C8: while the sink reports itself disabled, no Summary event, no Message
\* event and no LLM/LiteLLM/Error increment is recorded, for success and
\* failure callbacks alike, and nothing is raised.
C8_DisabledSinkRecordsNothing ==
    (last.kind \in {"success", "failure"} /\ last.adapter_enabled
        /\ ~last.app_enabled)
        => /\ last.summary = <<>>
           /\ last.message_events = <<>>
           /\ last.errors = <<>>
           /\ ~last.propagated

\* C9: when the sink raises on exactly one call during a success callback,
\* nothing is raised to the caller and at most one event of the Observation
\* (the Summary event and one Message event per normalized message) is lost.
C9_OneRaiseLosesOneEvent ==
    (last.kind = "success" /\ last.adapter_enabled /\ last.app_enabled
        /\ last.raises = 1)
        => /\ ~last.propagated
           /\ Len(last.summary) + Len(last.message_events)
                  >= (1 + Len(last.messages)) - 1

\* C10: the normalized messages are the request messages in their order
\* followed by the messages of the choices in choice order, numbered
\* 0..n-1 without gap or repeat.
PresentChoices(o) == SelectSeq(o.choices, LAMBDA c : c.message.present)

C10_SequenceNumbers ==
    (last.kind = "success" /\ last.adapter_enabled) =>
        LET o == last.observation
            m == last.messages
            r == Len(o.messages)
            present == PresentChoices(o)
        IN  /\ Len(m) = r + Len(present)
            /\ \A i \in 1..Len(m) : m[i].sequence = i - 1
            /\ \A i \in 1..r :
                   /\ ~m[i].is_response
                   /\ m[i].role = Get(o.messages[i].role, "user")
            /\ \A j \in 1..Len(present) :
                   /\ m[r + j].is_response
                   /\ m[r + j].role = Get(present[j].message.role, "assistant")

\* Two request messages, a choice without message and a choice with one:
\* three normalized messages.
C10_Witness ==
    /\ last.kind = "success" /\ last.adapter_enabled
    /\ Len(last.observation.messages) = 2
    /\ Len(last.observation.choices) = 2
    /\ ~last.observation.choices[1].message.present
    /\ Len(last.messages) = 3
    /\ last.messages[3].sequence = 2

\* C11: the "content" key is in every normalized message and in every
\* recorded LlmChatCompletionMessage event if and only if the policy resolved
\* at construction allows content (the turn_off_message_logging parameter
\* inverted when it was passed, else the environment variable being "true"
\* in any case), whatever the role, the side and the type of the content;
\* with the policy disallowing content no recorded event carries the key.
SuccessReturned == last.kind = "success" /\ last.adapter_enabled
PolicyAllowsContent ==
    IF content_config.provided
    THEN ~content_config.turn_off_message_logging
    ELSE content_config.env \in {"true", "TRUE"}

C11_ContentFollowsPolicy ==
    /\ record_content = PolicyAllowsContent
    /\ SuccessReturned =>
           /\ \A i \in 1..Len(last.messages) :
                  (last.messages[i].content # Missing) <=> PolicyAllowsContent
           /\ \A i \in 1..Len(last.message_events) :
                  (last.message_events[i].content # Missing)
                      <=> PolicyAllowsContent
           /\ ~PolicyAllowsContent =>
                  \A i \in 1..Len(last.message_events) :
                      last.message_events[i].content = Missing

\* On a logger built without the parameter and with the variable set to
\* "TRUE", the Message event of a response message holding tool calls was
\* recorded with their JSON text as content, after the event of the request
\* message.
C11_Witness ==
    /\ SuccessReturned
    /\ ~content_config.provided /\ content_config.env = "TRUE"
    /\ Len(last.message_events) = 2
    /\ last.message_events[2].is_response
    /\ last.observation.choices[1].message.tool_calls = ToolCalls
    /\ last.message_events[2].content = "[{}]"
    /\ last.message_events[1].content = "hi"

\* C12: the trace context is never partially populated: _get_trace_context
\* returns a trace id and a span id that are both present or both absent,
\* and every recorded Summary and Message event carries both trace_id and
\* span_id or neither.
RecordedEvents == last.summary \o last.message_events

C12_TraceContextWhole ==
    SuccessReturned =>
        LET trace == GetTraceContext(last.observation.traceparent)
        IN  /\ (trace.trace_id = Missing) <=> (trace.span_id = Missing)
            /\ \A i \in 1..Len(RecordedEvents) :
                   (RecordedEvents[i].trace_id = Missing)
                       <=> (RecordedEvents[i].span_id = Missing)

\* C13 as stated: in every recorded Summary event total_tokens is the sum of
\* prompt_tokens and completion_tokens when the input has a usage block, and
\* the three fields are 0 when it has none.
UsagePresent == last.observation.usage # NoUsage

C13_TotalIsSum ==
    (SuccessReturned /\ last.summary # <<>>) =>
        LET e == last.summary[1]
        IN  /\ UsagePresent =>
                   e.total_tokens = e.prompt_tokens + e.completion_tokens
            /\ ~UsagePresent =>
                   /\ e.prompt_tokens = 0
                   /\ e.completion_tokens = 0
                   /\ e.total_tokens = 0

\* C13 amended: each usage field of a recorded Summary event is the field of
\* the same name of the input's usage block, 0 where the block lacks it; so
\* total_tokens is the sum of the other two whenever the block holds the three
\* fields with its total equal to the sum of its parts, and the three fields
\* are 0 when the block is absent or empty.
UsageField(key) ==
    IF key \in DOMAIN last.observation.usage
    THEN last.observation.usage[key] ELSE 0
UsageAddsUp ==
    /\ DOMAIN last.observation.usage = UsageKeys
    /\ UsageField("total_tokens")
           = UsageField("prompt_tokens") + UsageField("completion_tokens")

C13_UsageCopied ==
    (SuccessReturned /\ last.summary # <<>>) =>
        LET e == last.summary[1]
        IN  /\ e.prompt_tokens = UsageField("prompt_tokens")
            /\ e.completion_tokens = UsageField("completion_tokens")
            /\ e.total_tokens = UsageField("total_tokens")
            /\ UsageAddsUp =>
                   e.total_tokens = e.prompt_tokens + e.completion_tokens
            /\ ~UsagePresent =>
                   /\ e.prompt_tokens = 0
                   /\ e.completion_tokens = 0
                   /\ e.total_tokens = 0

\* A Summary event recorded for a usage block without total_tokens: the
\* total is 0 beside two parts of 1.
C13_Witness ==
    /\ SuccessReturned /\ last.summary # <<>>
    /\ DOMAIN last.observation.usage = {"prompt_tokens", "completion_tokens"}
    /\ last.summary[1].prompt_tokens = 1
    /\ last.summary[1].completion_tokens = 1
    /\ last.summary[1].total_tokens = 0

\* C14: for every success callback, each recorded Message event has as id
\* the extracted completion identifier (the id of the response, else the
\* call id, else a generated one) joined with its sequence number, so the
\* ids are pairwise distinct; its request_id is the id of the Summary event
\* recorded for the same Observation, which is a generated identifier and
\* not the completion identifier.
CompletionIdOf(o) ==
    IF o.id \notin {Missing, ""} THEN o.id
    ELSE IF o.litellm_call_id \notin {Missing, ""} THEN o.litellm_call_id
    ELSE SecondUuid

C14_MessageIds ==
    SuccessReturned =>
        LET m == last.message_events
            completion_id == CompletionIdOf(last.observation)
        IN  /\ \A i \in 1..Len(m) :
                   /\ m[i].id = <<completion_id, m[i].sequence>>
                   /\ m[i].request_id = FirstUuid
                   /\ m[i].request_id # completion_id
                   /\ m[i].request_id \notin {last.observation.id,
                                              last.observation.litellm_call_id}
                   /\ \A j \in 1..Len(last.summary) :
                          m[i].request_id = last.summary[j].id
            /\ \A i, j \in 1..Len(m) : i # j => m[i].id # m[j].id
            /\ Len(last.summary) <= 1
            /\ \A j \in 1..Len(last.summary) :
                   /\ last.summary[j].id = FirstUuid
                   /\ last.summary[j].id # completion_id

\* The response has no id and the call id is set: the Summary event and
\* the three Message events were recorded, the ids of the Message events
\* built from the call id.
C14_Witness ==
    /\ SuccessReturned
    /\ last.observation.id = Missing
    /\ last.observation.litellm_call_id = "call-1"
    /\ Len(last.summary) = 1
    /\ Len(last.message_events) = 3
    /\ last.message_events[3].id = <<"call-1", 2>>
    /\ last.message_events[3].request_id = last.summary[1].id

\* C15: a heartbeat attempt that records no metric (the application is
\* disabled or the sink call raises) raises nothing to its caller, which
\* goes on to release the mutex and to the events, and leaves the timestamp
\* as it was; the mutex is free whenever no call is between its acquisition
\* and its release, so no later caller waits for it for ever; a call that
\* finds the interval elapsed under the mutex always makes an attempt, so
\* while every attempt has been refused the timestamp is still 0.0 and each
\* later call attempts again; the timestamp is written only by a call whose
\* attempt recorded the metric.
NoEmissionYet == emitTimes = <<>>
LastEmitted == emitTimes[Len(emitTimes)]

C15_RefusedAttemptChangesNothing ==
    /\ \A t \in Threads :
           /\ SinkRefused(t) =>
                  /\ hb[t].emitted = 0 /\ ~hb[t].wrote
                  /\ pc[t] \in {"release", "events"}
                  /\ pc[t] = "events" => (hb[t].finished /\ metric_lock # t)
           /\ hb[t].wrote => (hb[t].outcome = "ok" /\ hb[t].emitted = 1)
           /\ (pc[t] \in {"release", "events"} /\ hb[t].recheck = "due")
                  => hb[t].outcome # "none"
           /\ NoEmissionYet => hb[t].recheck # "fresh"
    /\ (\A t \in Threads : pc[t] \notin LockedSection) => metric_lock = NoThread
    /\ NoEmissionYet => last_emission = NeverEmitted
    /\ last_emission # NeverEmitted =>
           \/ last_emission >= LastEmitted
           \/ /\ \E t \in Threads : pc[t] = "write_time"
              /\ Len(emitTimes) >= 2
              /\ last_emission >= emitTimes[Len(emitTimes) - 1]

\* An attempt was refused and its call has returned; a later call holds the
\* mutex and is at its own attempt, the timestamp still 0.0.
C15_Witness ==
    /\ hbFailed /\ NoEmissionYet
    /\ last_emission = NeverEmitted
    /\ \A u \in Threads : hb[u].outcome = "none"
    /\ \E t \in Threads : pc[t] = "emit" /\ metric_lock = t

====
